---- MODULE Spec2Model ----
(***************************************************************************)
(* GC log analysis of java-gc-bench-docker:                                *)
(*   src/scripts/analyze_high_memory_scenarios.py  (scenario analysis)     *)
(*   src/scripts/parse_gc_logs.py                  (baseline summary)      *)
(*   src/quick_analysis.py                         (quick summary)         *)
(*                                                                         *)
(* Python floats are modelled as exact rationals [num, den] in lowest      *)
(* terms; float('inf') is 1/0 and float('nan') is 0/0.  Pause durations    *)
(* fed to the statistics are whole numbers of milliseconds.                *)
(***************************************************************************)
EXTENDS Integers, Sequences, FiniteSets, TLC

VARIABLES
    \* statistics of one sample, as each analysis path computes them
    pauses, quick, rich, grouped, spc,
    \* parse_unified_gc_log reading one file: the line just read, what the
    \* loop body did with it, the rows so far, the position, lines read
    cur, outcome, rows, ppc, nread,
    \* analyze_high_memory_scenarios.py: the module-level script
    pc, pos, all_frames, scenario_results, summary_rows, winner_analysis,
    overall_scores, avg_scores, overall_winner, standings

statVars == <<pauses, quick, rich, grouped, spc>>
parseVars == <<cur, outcome, rows, ppc, nread>>
pipeVars == <<pc, pos, all_frames, scenario_results, summary_rows,
              winner_analysis, overall_scores, avg_scores, overall_winner,
              standings>>
vars == <<pauses, quick, rich, grouped, spc, cur, outcome, rows, ppc, nread,
          pc, pos, all_frames, scenario_results, summary_rows,
          winner_analysis, overall_scores, avg_scores, overall_winner,
          standings>>

(***************************************************************************)
(* Bounds of the model.                                                    *)
(***************************************************************************)
\* largest pause value (ms) in a sample
MaxPause == 2
\* longest sample enumerated with every order of its values
MaxLen == 3
\* longest two-run sample (past the 100-value threshold of p99)
MaxCount == 102
\* longest second run of a two-run sample
MaxTail == 7
\* lines read from one log file
MaxLines == 2
\* longest line enumerated over the whole alphabet
MaxShortLine == 2
\* scenarios of LOGS the scenario analysis is run on (the first ones)
NumScenarios == 2
\* longest pause list of a log in the scenario analysis
MaxPipeLen == 2

(***************************************************************************)
(* Rational arithmetic standing for float arithmetic.                      *)
(***************************************************************************)
\* Python's None, and a raised exception, as records (comparable with results)
None == [none |-> TRUE]

Raised(e) == [raised |-> e]

RECURSIVE GCD(_, _)
GCD(a, b) == IF b = 0 THEN a ELSE GCD(b, a % b)

Rat(n, d) == LET g == GCD(n, d) IN [num |-> n \div g, den |-> d \div g]

FromInt(v) == [num |-> v, den |-> 1]

Inf == [num |-> 1, den |-> 0]

NaN == [num |-> 0, den |-> 0]

LCM(a, b) == (a \div GCD(a, b)) * b

RAdd(a, b) ==
    IF a.den = 0 THEN a
    ELSE IF b.den = 0 THEN b
    ELSE LET l == LCM(a.den, b.den)
         IN Rat(a.num * (l \div a.den) + b.num * (l \div b.den), l)

RMulInt(a, k) == IF a.den = 0 THEN a ELSE Rat(a.num * k, a.den)

RDivInt(a, k) == IF a.den = 0 THEN a ELSE Rat(a.num, a.den * k)

\* a < b on floats without nan: inf is above every finite value
RLess(a, b) ==
    IF a.den = 0 THEN FALSE
    ELSE IF b.den = 0 THEN TRUE
    ELSE LET l == LCM(a.den, b.den)
         IN a.num * (l \div a.den) < b.num * (l \div b.den)

RLeq(a, b) == ~RLess(b, a)

(***************************************************************************)
(* Builtins on lists of numbers: sum, max, sorted.                         *)
(***************************************************************************)
RECURSIVE Sum(_)
Sum(s) == IF s = <<>> THEN 0 ELSE Head(s) + Sum(Tail(s))

Range(s) == {s[i] : i \in DOMAIN s}

MaxOf(s) == CHOOSE v \in Range(s) : \A w \in Range(s) : w <= v

Rep(v, k) == [i \in 1..k |-> v]

RECURSIVE SortedRuns(_, _)
SortedRuns(vals, s) ==
    IF vals = {} THEN <<>>
    ELSE LET v == CHOOSE x \in vals : \A y \in vals : x <= y
         IN Rep(v, Cardinality({i \in DOMAIN s : s[i] = v}))
              \o SortedRuns(vals \ {v}, s)

\* sorted(pauses): the ascending rearrangement of the list
Sorted(s) == SortedRuns(Range(s), s)

(***************************************************************************)
(* src/scripts/analyze_high_memory_scenarios.py: percentile and score.     *)
(***************************************************************************)
\* pandas Series.quantile(q/100), linear interpolation at q*(n-1)/100
percentile(series, q) ==
    IF series = <<>> THEN NaN
    ELSE LET srt == Sorted(series)
             n == Len(series)
             lo == (q * (n - 1)) \div 100
             r == (q * (n - 1)) % 100
             hi == IF r = 0 THEN lo ELSE lo + 1
         IN Rat(100 * srt[lo + 1] + (srt[hi + 1] - srt[lo + 1]) * r, 100)

\* the weights of p99 and p95 exchanged
calculate_gc_score_swapped(df) ==
    IF df = <<>> THEN Inf
    ELSE LET p99 == percentile(df, 99)
             p95 == percentile(df, 95)
             max_pause == FromInt(MaxOf(df))
             mean_pause == Rat(Sum(df), Len(df))
             total_pause == FromInt(Sum(df))
         IN RAdd(RAdd(RAdd(RAdd(RMulInt(p99, 2), RMulInt(p95, 3)),
                           RMulInt(max_pause, 2)),
                      mean_pause),
                 RDivInt(total_pause, 1000))

calculate_gc_score(df) ==
    IF df = <<>> THEN Inf
    ELSE LET p99 == percentile(df, 99)
             p95 == percentile(df, 95)
             max_pause == FromInt(MaxOf(df))
             mean_pause == Rat(Sum(df), Len(df))
             total_pause == FromInt(Sum(df))
         IN RAdd(RAdd(RAdd(RAdd(RMulInt(p99, 3), RMulInt(p95, 2)),
                           RMulInt(max_pause, 2)),
                      mean_pause),
                 RDivInt(total_pause, 1000))

\* the summary row of one non-empty (scenario, collector) frame
SummaryRow(df) ==
    [events |-> Len(df),
     total_pause_ms |-> FromInt(Sum(df)),
     max_pause_ms |-> FromInt(MaxOf(df)),
     mean_ms |-> Rat(Sum(df), Len(df)),
     p95_ms |-> percentile(df, 95),
     p99_ms |-> percentile(df, 99),
     gc_score |-> calculate_gc_score(df)]

(***************************************************************************)
(* src/scripts/parse_gc_logs.py: groupby summary of one source.            *)
(***************************************************************************)
GroupSummary(df) ==
    [events |-> Len(df),
     total_pause_ms |-> FromInt(Sum(df)),
     max_pause_ms |-> FromInt(MaxOf(df)),
     mean_ms |-> Rat(Sum(df), Len(df)),
     p95_ms |-> percentile(df, 95),
     p99_ms |-> percentile(df, 99)]

(***************************************************************************)
(* src/quick_analysis.py: analyze_log's statistics.                        *)
(***************************************************************************)
IndexError == Raised("IndexError")

\* lst[i] with Python's 0-based index
Item(lst, i) == IF i < Len(lst) THEN FromInt(lst[i + 1]) ELSE IndexError

QuickP95(ps) ==
    IF Len(ps) > 20 THEN Item(Sorted(ps), (Len(ps) * 95) \div 100)
    ELSE FromInt(MaxOf(ps))

\* the index taken in the list as read, not in sorted(pauses)
QuickP99Unsorted(ps) ==
    IF Len(ps) > 100 THEN Item(ps, (Len(ps) * 99) \div 100)
    ELSE FromInt(MaxOf(ps))

QuickP99(ps) ==
    IF Len(ps) > 100 THEN Item(Sorted(ps), (Len(ps) * 99) \div 100)
    ELSE FromInt(MaxOf(ps))

analyze_log(ps) ==
    IF ps = <<>> THEN None
    ELSE IF IndexError \in {QuickP95(ps), QuickP99(ps)} THEN IndexError
    ELSE [count |-> Len(ps),
          total |-> FromInt(Sum(ps)),
          mean |-> Rat(Sum(ps), Len(ps)),
          max |-> FromInt(MaxOf(ps)),
          p95 |-> QuickP95(ps),
          p99 |-> QuickP99(ps)]

(***************************************************************************)
(* parse_unified_gc_log (both scripts): one log line is a sequence of       *)
(* symbols.  "Pause" is the marker word, "D" a date head dddd-dd-ddT,       *)
(* " " white space, "x" a character that is none of these nor a digit, a   *)
(* dot, a colon, a sign, "m" or "s".                                       *)
(***************************************************************************)
Digits == {"0", "1", "5"}

Alphabet == {"Pause", ":", " ", ".", "m", "s", "x", "D"} \cup Digits

DigitVal(c) == CASE c = "0" -> 0 [] c = "1" -> 1 [] c = "5" -> 5

RECURSIVE DigitsVal(_)
DigitsVal(s) ==
    IF s = <<>> THEN 0
    ELSE DigitsVal(SubSeq(s, 1, Len(s) - 1)) * 10 + DigitVal(s[Len(s)])

RECURSIVE Pow10(_)
Pow10(k) == IF k = 0 THEN 1 ELSE 10 * Pow10(k - 1)

ValueError == Raised("ValueError")

\* float(text) of a run of digits and dots
float(text) ==
    LET dots == {i \in DOMAIN text : text[i] = "."}
    IN IF Cardinality(dots) > 1 \/ Cardinality(dots) = Len(text)
       THEN ValueError
       ELSE IF dots = {} THEN FromInt(DigitsVal(text))
       ELSE LET d == CHOOSE i \in dots : TRUE
                frac == SubSeq(text, d + 1, Len(text))
            IN Rat(DigitsVal(SubSeq(text, 1, d - 1)) * Pow10(Len(frac))
                     + DigitsVal(frac),
                   Pow10(Len(frac)))

RECURSIVE SkipWs(_, _)
\* \s* from position k: the first position not holding white space
SkipWs(line, k) ==
    IF k <= Len(line) /\ line[k] = " " THEN SkipWs(line, k + 1) ELSE k

RECURSIVE RunEnd(_, _)
\* [\d.]+ from position k: the position after the run of digits and dots
RunEnd(line, k) ==
    IF k <= Len(line) /\ line[k] \in Digits \cup {"."}
    THEN RunEnd(line, k + 1) ELSE k

RECURSIVE FirstColon(_, _)
\* [^:]*?: from position k: the position of the next colon, 0 if none
FirstColon(line, k) ==
    IF k > Len(line) THEN 0
    ELSE IF line[k] = ":" THEN k
    ELSE FirstColon(line, k + 1)

StartsWith(line, k, lit) ==
    /\ k + Len(lit) - 1 <= Len(line)
    /\ SubSeq(line, k, k + Len(lit) - 1) = lit

NoMatch == [matched |-> FALSE]

\* Pause[^:]*?:\s*([\d.]+)\s*<unit> anchored at position i
PauseMatchAt(line, i, unit) ==
    LET c == FirstColon(line, i + 1)
        a == SkipWs(line, c + 1)
        b == RunEnd(line, a)
        u == SkipWs(line, b)
    IN IF line[i] = "Pause" /\ c > 0 /\ b > a /\ StartsWith(line, u, unit)
       THEN [matched |-> TRUE, group1 |-> SubSeq(line, a, b - 1)]
       ELSE NoMatch

\* pattern.search(line): the leftmost position that matches
PauseSearch(line, unit) ==
    LET starts == {i \in DOMAIN line : PauseMatchAt(line, i, unit).matched}
    IN IF starts = {} THEN NoMatch
       ELSE PauseMatchAt(line,
                         CHOOSE i \in starts : \A j \in starts : i <= j,
                         unit)

pattern_pause_ms(line) == PauseSearch(line, <<"m", "s">>)

pattern_pause_s(line) == PauseSearch(line, <<"s">>)

\* (?P<uptime>[\d.]+)s?:\s* from position a
UptimeAt(line, a) ==
    LET b == RunEnd(line, a)
        c == IF b <= Len(line) /\ line[b] = "s" THEN b + 1 ELSE b
    IN IF b > a /\ c <= Len(line) /\ line[c] = ":"
       THEN [matched |-> TRUE, uptime |-> SubSeq(line, a, b - 1)]
       ELSE NoMatch

RECURSIVE TsRunEnd(_, _)
\* [0-9:.+-]+ from position k: the position after the run
TsRunEnd(line, k) ==
    IF k <= Len(line) /\ line[k] \in Digits \cup {":", "."}
    THEN TsRunEnd(line, k + 1) ELSE k

\* ^(?:(?P<ts>dddd-dd-ddT[0-9:.+-]+):\s*)?(?P<uptime>[\d.]+)s?:\s*
pattern_prefix(line) ==
    LET e == IF line # <<>> /\ line[1] = "D" THEN TsRunEnd(line, 2) ELSE 0
        \* the ends of ts after which the rest of the pattern matches
        ends == {t \in 3..(e - 1) :
                   /\ line[t] = ":"
                   /\ UptimeAt(line, SkipWs(line, t + 1)).matched}
    IN IF ends # {}
       THEN LET t == CHOOSE x \in ends : \A y \in ends : y <= x
            IN [matched |-> TRUE,
                ts |-> SubSeq(line, 1, t - 1),
                uptime |-> UptimeAt(line, SkipWs(line, t + 1)).uptime]
       ELSE IF UptimeAt(line, 1).matched
       THEN [matched |-> TRUE, ts |-> None,
             uptime |-> UptimeAt(line, 1).uptime]
       ELSE NoMatch

Continue == [kind |-> "continue"]

\* the body of the loop over the lines of the file, for one line
LoopBody(line) ==
    IF "Pause" \notin Range(line) THEN Continue
    ELSE LET m_ms == pattern_pause_ms(line)
             m_s == pattern_pause_s(line)
         IN IF ~(m_ms.matched \/ m_s.matched) THEN Continue
            ELSE LET pause_ms == IF m_ms.matched THEN float(m_ms.group1)
                                 ELSE IF float(m_s.group1) = ValueError
                                 THEN ValueError
                                 ELSE RMulInt(float(m_s.group1), 1000)
                     mp == pattern_prefix(line)
                     ts == IF mp.matched THEN mp.ts ELSE None
                     uptime == IF mp.matched THEN float(mp.uptime) ELSE None
                 IN IF pause_ms = ValueError \/ uptime = ValueError
                    THEN ValueError
                    ELSE [kind |-> "row",
                          row |-> [timestamp |-> ts, uptime_sec |-> uptime,
                                   pause_ms |-> pause_ms]]

(***************************************************************************)
(* Specification of the parser: the lines of one file, one at a time.      *)
(***************************************************************************)
RECURSIVE SeqsUpTo(_, _)
SeqsUpTo(S, n) ==
    IF n = 0 THEN {<<>>}
    ELSE LET shorter == SeqsUpTo(S, n - 1)
         IN shorter \cup {Append(s, v) : s \in shorter, v \in S}

Prefixes ==
    { <<>>,
      <<"1", ".", "5", "s", ":", " ">>,
      <<"5", ":", " ">>,
      <<".", ":", " ">>,
      <<"D", "1", ":", "0", ".", "5", ":", " ">>,
      <<"D", "1", ":", "5", ":", "1", "s", ":", " ">>,
      <<"D", "1", ":", " ">>,
      <<"x", "1", ".", "5", "s", "x", " ">> }

Bodies ==
    { <<>>,
      <<"x">>,
      <<"Pause">>,
      <<"Pause", ":", "1", "m", "s">>,
      <<"Pause", " ", "x", ":", " ", "1", ".", "5", " ", "m", "s">>,
      <<"Pause", ":", "5", "s">>,
      <<"Pause", " ", "x", ":", " ", "0", ".", "5", " ", "s">>,
      <<"Pause", ":", "1", ".", "5", ".", "1", " ", "m", "s">>,
      <<"Pause", ":", ".", "s">>,
      <<"Pause", ":", "x", "1", "m", "s">>,
      <<"x", ":", "5", "m", "s">> }

Tails ==
    { <<>>,
      <<" ", "x">>,
      <<"Pause", ":", "1", "m", "s">>,
      <<"Pause", ":", "5", "s">> }

Lines ==
    SeqsUpTo(Alphabet, MaxShortLine)
    \cup {p \o a \o b : p \in Prefixes, a \in Bodies, b \in Tails}

StatIdle ==
    /\ pauses = <<>>
    /\ quick = None
    /\ rich = None
    /\ grouped = None
    /\ spc = "idle"

ParseIdle ==
    /\ cur = <<>>
    /\ outcome = None
    /\ rows = <<>>
    /\ ppc = "idle"
    /\ nread = 0

PipeIdle ==
    /\ pc = "idle"
    /\ pos = 0
    /\ all_frames = <<>>
    /\ scenario_results = <<>>
    /\ summary_rows = <<>>
    /\ winner_analysis = <<>>
    /\ overall_scores = <<>>
    /\ avg_scores = <<>>
    /\ overall_winner = None
    /\ standings = <<>>

ParseInit ==
    /\ cur = <<>>
    /\ outcome = None
    /\ rows = <<>>
    /\ ppc = "loop"
    /\ nread = 0
    /\ StatIdle
    /\ PipeIdle

\* for line in f: one pass of the loop body
ReadLine ==
    /\ ppc = "loop"
    /\ nread < MaxLines
    /\ \E line \in Lines :
         LET res == LoopBody(line)
         IN /\ cur' = line
            /\ outcome' = res
            /\ rows' = IF res \notin {Continue, ValueError}
                       THEN Append(rows, res.row) ELSE rows
            /\ ppc' = IF res = ValueError THEN "raised" ELSE "loop"
    /\ nread' = nread + 1
    /\ UNCHANGED <<statVars, pipeVars>>

\* the file is exhausted: df = pd.DataFrame(rows); return df
EndOfFile ==
    /\ ppc = "loop"
    /\ ppc' = "returned"
    /\ UNCHANGED <<cur, outcome, rows, nread, statVars, pipeVars>>

ParseNext == ReadLine \/ EndOfFile

SpecParse == ParseInit /\ [][ParseNext]_vars

(***************************************************************************)
(* Specification of the statistics: one sample through the three paths.    *)
(***************************************************************************)
StatSamples ==
    SeqsUpTo(0..MaxPause, MaxLen)
    \cup UNION {{Rep(v1, k1) \o Rep(v2, k2) :
                   v1 \in 0..MaxPause, v2 \in 0..MaxPause,
                   k1 \in 0..(MaxCount - k2)} : k2 \in 0..MaxTail}

StatInit ==
    /\ pauses \in StatSamples
    /\ quick = None
    /\ rich = None
    /\ grouped = None
    /\ spc = "quick"
    /\ ParseIdle
    /\ PipeIdle

QuickAnalyze ==
    /\ spc = "quick"
    /\ quick' = analyze_log(pauses)
    /\ spc' = "rich"
    /\ UNCHANGED <<pauses, rich, grouped, parseVars, pipeVars>>

RichSummarize ==
    /\ spc = "rich"
    /\ rich' = IF pauses = <<>> THEN None ELSE SummaryRow(pauses)
    /\ spc' = "grouped"
    /\ UNCHANGED <<pauses, quick, grouped, parseVars, pipeVars>>

GroupSummarize ==
    /\ spc = "grouped"
    /\ grouped' = IF pauses = <<>> THEN None ELSE GroupSummary(pauses)
    /\ spc' = "done"
    /\ UNCHANGED <<pauses, quick, rich, parseVars, pipeVars>>

StatNext == QuickAnalyze \/ RichSummarize \/ GroupSummarize

SpecStats == StatInit /\ [][StatNext]_vars

(***************************************************************************)
(* analyze_high_memory_scenarios.py, module level.  A dict is the sequence  *)
(* of its items in insertion order.                                        *)
(***************************************************************************)
\* LOGS: scenario -> collector -> path, in the order of the literal
LOGS ==
    << [scenario |-> "baseline", gcs |-> <<"zgc", "shenandoah">>],
       [scenario |-> "high1", gcs |-> <<"zgc", "shenandoah">>],
       [scenario |-> "high2", gcs |-> <<"zgc", "shenandoah">>],
       [scenario |-> "high3", gcs |-> <<"zgc", "shenandoah">>] >>

RECURSIVE LogItems(_)
\* the (scenario, gc_name) pairs in the order the nested loops visit them
LogItems(logs) ==
    IF logs = <<>> THEN <<>>
    ELSE [i \in DOMAIN Head(logs).gcs |->
            [scenario |-> Head(logs).scenario, gc |-> Head(logs).gcs[i],
             first |-> i = 1]]
         \o LogItems(Tail(logs))

\* the part of LOGS analysed
LogPairs == LogItems(SubSeq(LOGS, 1, NumScenarios))

Keys(d) == {d[i].key : i \in DOMAIN d}

Get(d, k) == (d[CHOOSE i \in DOMAIN d : d[i].key = k]).value

\* d[k] = v on a dict: a new key goes last, an old key keeps its place
Put(d, k, v) ==
    IF k \in Keys(d)
    THEN [i \in DOMAIN d |-> IF d[i].key = k THEN [key |-> k, value |-> v]
                             ELSE d[i]]
    ELSE Append(d, [key |-> k, value |-> v])

RECURSIVE MinScan(_, _)
MinScan(d, best) ==
    IF d = <<>> THEN best
    ELSE MinScan(Tail(d),
                 IF RLess(Head(d).value, best.value) THEN Head(d) ELSE best)

RECURSIVE MinScanLast(_, _)
MinScanLast(d, best) ==
    IF d = <<>> THEN best
    ELSE MinScanLast(Tail(d),
                     IF RLeq(Head(d).value, best.value) THEN Head(d)
                     ELSE best)

\* a scan that keeps the last minimum (<= where the scan has <)
MinKeyLast(d) == MinScanLast(Tail(d), Head(d)).key

\* min(d, key=d.get): the first key holding the least value
MinKey(d) == MinScan(Tail(d), Head(d)).key

RECURSIVE RSum(_)
RSum(s) == IF s = <<>> THEN FromInt(0) ELSE RAdd(Head(s), RSum(Tail(s)))

\* the sum where the mean is meant
np_sum(scores) == RSum(scores)

\* np.mean(scores)
np_mean(scores) == RDivInt(RSum(scores), Len(scores))

RECURSIVE ScoreFramesNoSkip(_)
\* the inner loop without its "if df.empty: continue"
ScoreFramesNoSkip(gc_data) ==
    IF gc_data = <<>> THEN <<>>
    ELSE <<[key |-> Head(gc_data).key,
            value |-> calculate_gc_score(Head(gc_data).value)]>>
         \o ScoreFramesNoSkip(Tail(gc_data))

RECURSIVE ScoreFramesZero(_)
\* the inner loop scoring an empty frame 0 instead of skipping it
ScoreFramesZero(gc_data) ==
    IF gc_data = <<>> THEN <<>>
    ELSE <<[key |-> Head(gc_data).key,
            value |-> IF Head(gc_data).value = <<>> THEN FromInt(0)
                      ELSE calculate_gc_score(Head(gc_data).value)]>>
         \o ScoreFramesZero(Tail(gc_data))

RECURSIVE ScoreFrames(_)
\* the inner loop over gc_data: scenario_scores of the non-empty frames
ScoreFrames(gc_data) ==
    IF gc_data = <<>> THEN <<>>
    ELSE IF Head(gc_data).value = <<>> THEN ScoreFrames(Tail(gc_data))
    ELSE <<[key |-> Head(gc_data).key,
            value |-> calculate_gc_score(Head(gc_data).value)]>>
         \o ScoreFrames(Tail(gc_data))

RECURSIVE RowsOf(_, _)
\* the inner loop over gc_data: the summary rows it appends
RowsOf(scenario, gc_data) ==
    IF gc_data = <<>> THEN <<>>
    ELSE IF Head(gc_data).value = <<>> THEN RowsOf(scenario, Tail(gc_data))
    ELSE <<[scenario |-> scenario, gc |-> Head(gc_data).key,
            stats |-> SummaryRow(Head(gc_data).value)]>>
         \o RowsOf(scenario, Tail(gc_data))

RECURSIVE AddScores(_, _)
\* overall_scores[gc].append(score) for each item of one analysis' scores
AddScores(acc, scores) ==
    IF scores = <<>> THEN acc
    ELSE LET gc == Head(scores).key
             sofar == IF gc \in Keys(acc) THEN Get(acc, gc) ELSE <<>>
         IN AddScores(Put(acc, gc, Append(sofar, Head(scores).value)),
                      Tail(scores))

RECURSIVE CollectScores(_, _)
CollectScores(acc, analysis) ==
    IF analysis = <<>> THEN acc
    ELSE CollectScores(AddScores(acc, Head(analysis).value.scores),
                       Tail(analysis))

RECURSIVE InsertSorted(_, _)
InsertSorted(srt, item) ==
    IF srt = <<>> THEN <<item>>
    ELSE IF RLess(item.value, Head(srt).value) THEN <<item>> \o srt
    ELSE <<Head(srt)>> \o InsertSorted(Tail(srt), item)

RECURSIVE SortedByValue(_)
\* sorted(d.items(), key=lambda x: x[1]): stable
SortedByValue(d) ==
    IF d = <<>> THEN <<>>
    ELSE InsertSorted(SortedByValue(SubSeq(d, 1, Len(d) - 1)), d[Len(d)])

WinsOf(analysis, gc) ==
    Cardinality({i \in DOMAIN analysis : analysis[i].value.winner = gc})

(***************************************************************************)
(* Specification of the scenario analysis.                                 *)
(***************************************************************************)
\* what parse_unified_gc_log may return for a log: its pause_ms column
PipeSamples == {[i \in 1..k |-> i] : k \in 0..MaxPipeLen}

Init ==
    /\ pc = "collect"
    /\ pos = 1
    /\ all_frames = <<>>
    /\ scenario_results = <<>>
    /\ summary_rows = <<>>
    /\ winner_analysis = <<>>
    /\ overall_scores = <<>>
    /\ avg_scores = <<>>
    /\ overall_winner = None
    /\ standings = <<>>
    /\ StatIdle
    /\ ParseIdle

\* one pass of the inner loop of the log collection: one (scenario, gc_name)
CollectLog ==
    /\ pc = "collect"
    /\ LET item == LogPairs[pos]
           opened == IF item.first
                     THEN Put(scenario_results, item.scenario, <<>>)
                     ELSE scenario_results
       IN \/ \* os.path.exists(path) is false
             /\ scenario_results' = opened
             /\ UNCHANGED all_frames
          \/ \E df \in PipeSamples :
               /\ all_frames' = Append(all_frames, df)
               /\ scenario_results' =
                    Put(opened, item.scenario,
                        Put(Get(opened, item.scenario), item.gc, df))
    /\ pos' = IF pos = Len(LogPairs) THEN 1 ELSE pos + 1
    /\ pc' = IF pos = Len(LogPairs) THEN "check" ELSE "collect"
    /\ UNCHANGED <<summary_rows, winner_analysis, overall_scores, avg_scores,
                   overall_winner, standings, statVars, parseVars>>

\* if not all_frames: raise SystemExit(0)
CheckFrames ==
    /\ pc = "check"
    /\ pc' = IF all_frames = <<>> THEN "exit" ELSE "scenarios"
    /\ UNCHANGED <<pos, all_frames, scenario_results, summary_rows,
                   winner_analysis, overall_scores, avg_scores,
                   overall_winner, standings, statVars, parseVars>>

\* one pass of the loop over scenario_results
AnalyzeScenario ==
    /\ pc = "scenarios"
    /\ LET scenario == scenario_results[pos].key
           gc_data == scenario_results[pos].value
           scenario_scores == ScoreFrames(gc_data)
       IN IF gc_data = <<>>
          THEN UNCHANGED <<summary_rows, winner_analysis>>
          ELSE /\ summary_rows' = summary_rows \o RowsOf(scenario, gc_data)
               /\ winner_analysis' =
                    IF scenario_scores # <<>>
                    THEN Put(winner_analysis, scenario,
                             [winner |-> MinKey(scenario_scores),
                              score |-> Get(scenario_scores,
                                            MinKey(scenario_scores)),
                              scores |-> scenario_scores])
                    ELSE winner_analysis
    /\ pos' = IF pos = Len(scenario_results) THEN 1 ELSE pos + 1
    /\ pc' = IF pos = Len(scenario_results) THEN "overall" ELSE "scenarios"
    /\ UNCHANGED <<all_frames, scenario_results, overall_scores, avg_scores,
                   overall_winner, standings, statVars, parseVars>>

\* the overall winner analysis
OverallAnalysis ==
    /\ pc = "overall"
    /\ LET scores == CollectScores(<<>>, winner_analysis)
           avgs == [i \in DOMAIN scores |->
                      [key |-> scores[i].key,
                       value |-> np_mean(scores[i].value)]]
       IN /\ overall_scores' = scores
          /\ avg_scores' = avgs
          /\ IF avgs = <<>>
             THEN \* min() of an empty dict raises ValueError
                  /\ pc' = "error"
                  /\ UNCHANGED <<overall_winner, standings>>
             ELSE /\ pc' = "done"
                  /\ overall_winner' = MinKey(avgs)
                  /\ standings' =
                       LET srt == SortedByValue(avgs)
                       IN [i \in DOMAIN srt |->
                             [gc |-> srt[i].key, score |-> srt[i].value,
                              wins |-> WinsOf(winner_analysis, srt[i].key)]]
    /\ UNCHANGED <<pos, all_frames, scenario_results, summary_rows,
                   winner_analysis, statVars, parseVars>>

Next == CollectLog \/ CheckFrames \/ AnalyzeScenario \/ OverallAnalysis

Spec == Init /\ [][Next]_vars

(***************************************************************************)
(* Properties of the scenario analysis (checked under Spec).               *)
(***************************************************************************)
\* the scenarios whose pass of the scenario loop is over
Analysed ==
    IF pc = "scenarios" THEN 1..(pos - 1)
    ELSE IF pc \in {"overall", "done", "error"} THEN DOMAIN scenario_results
    ELSE {}

\* the pause list of a collector in scenario i; none when its log is missing
FrameOf(i, gc) ==
    IF gc \in Keys(scenario_results[i].value)
    THEN Get(scenario_results[i].value, gc) ELSE <<>>

\* the collectors registered for a scenario, in order
Registered(scenario) ==
    (LOGS[CHOOSE i \in DOMAIN LOGS : LOGS[i].scenario = scenario]).gcs

RegIndex(scenario, gc) ==
    CHOOSE i \in DOMAIN Registered(scenario) : Registered(scenario)[i] = gc

\* the collectors with at least one pause event in scenario i
WithData(i) ==
    {g \in Range(Registered(scenario_results[i].key)) : FrameOf(i, g) # <<>>}

Finished == pc \in {"done", "error", "exit"}

\* C1: when some log exists but no log yields a pause event, the analysis
\* ends without an error and without an overall winner (insufficient data).
C1_InsufficientData ==
    (/\ Finished
     /\ all_frames # <<>>
     /\ \A i \in DOMAIN all_frames : all_frames[i] = <<>>)
    => (pc # "error" /\ overall_winner = None)

\* C2: the winner of a scenario with a scored collector has the least Score
\* of the scenario, and among collectors with that Score it is the one
\* registered first.
C2_ScenarioWinner ==
    \A i \in Analysed :
       LET scenario == scenario_results[i].key
       IN WithData(i) # {} =>
            /\ scenario \in Keys(winner_analysis)
            /\ LET e == Get(winner_analysis, scenario)
               IN /\ Keys(e.scores) = WithData(i)
                  /\ e.winner \in WithData(i)
                  /\ e.score = Get(e.scores, e.winner)
                  /\ \A g \in WithData(i) :
                       /\ Get(e.scores, g) = calculate_gc_score(FrameOf(i, g))
                       /\ RLeq(e.score, Get(e.scores, g))
                       /\ Get(e.scores, g) = e.score
                            => RegIndex(scenario, e.winner)
                                 <= RegIndex(scenario, g)

\* C2 witness: two collectors of a scenario have the same Score and the
\* first registered one is the winner.
C2_TieWitness ==
    \E i \in Analysed :
       /\ Cardinality(WithData(i)) = 2
       /\ scenario_results[i].key \in Keys(winner_analysis)
       /\ LET e == Get(winner_analysis, scenario_results[i].key)
          IN /\ e.scores[1].value = e.scores[2].value
             /\ e.winner = Registered(scenario_results[i].key)[1]

\* C3: a collector without pause events scores +infinity and is never a
\* scenario winner: every winner has events and a finite Score, and every
\* scenario in which some collector has events has a winner.
C3_EmptyNeverWins ==
    /\ calculate_gc_score(<<>>) = Inf
    /\ \A i \in Analysed :
         LET scenario == scenario_results[i].key
         IN /\ WithData(i) # {} => scenario \in Keys(winner_analysis)
            /\ scenario \in Keys(winner_analysis) =>
                 LET e == Get(winner_analysis, scenario)
                 IN /\ FrameOf(i, e.winner) # <<>>
                    /\ e.score.den > 0

\* C3 witness: the first registered collector's log is there without any
\* pause event, the second has events and wins.
C3_EmptyLosesWitness ==
    \E i \in Analysed :
       LET scenario == scenario_results[i].key
           first == Registered(scenario)[1]
       IN /\ first \in Keys(scenario_results[i].value)
          /\ FrameOf(i, first) = <<>>
          /\ scenario \in Keys(winner_analysis)
          /\ Get(winner_analysis, scenario).winner = Registered(scenario)[2]

\* the scenarios with a winner entry in which a collector has a Score
ScoredIn(gc) ==
    {i \in DOMAIN winner_analysis : gc \in Keys(winner_analysis[i].value.scores)}

RECURSIVE ScoreSum(_, _)
ScoreSum(idx, gc) ==
    IF idx = {} THEN FromInt(0)
    ELSE LET i == CHOOSE x \in idx : TRUE
         IN RAdd(Get(winner_analysis[i].value.scores, gc),
                 ScoreSum(idx \ {i}, gc))

\* the mean of a collector's Scores over the scenarios where it has one
MeanOver(gc) == RDivInt(ScoreSum(ScoredIn(gc), gc), Cardinality(ScoredIn(gc)))

Entrants == {gc \in Range(LOGS[1].gcs) : ScoredIn(gc) # {}}

ScenariosWon(gc) ==
    Cardinality({i \in DOMAIN winner_analysis :
                   winner_analysis[i].value.winner = gc})

\* C4: the overall winner has the lowest mean Score, each mean taken over the
\* scenarios where the collector has a Score, and the win count reported for
\* a collector is the number of scenarios it won.
C4_OverallWinner ==
    pc = "done" =>
      /\ overall_winner \in Entrants
      /\ \A g \in Entrants : RLeq(MeanOver(overall_winner), MeanOver(g))
      /\ Keys(avg_scores) = Entrants
      /\ \A g \in Entrants : Get(avg_scores, g) = MeanOver(g)
      /\ {standings[i].gc : i \in DOMAIN standings} = Entrants
      /\ \A i \in DOMAIN standings :
           /\ standings[i].score = MeanOver(standings[i].gc)
           /\ standings[i].wins = ScenariosWon(standings[i].gc)

\* C4 witness: the overall winner won strictly fewer scenarios than another
\* collector.
C4_FewerWinsWitness ==
    /\ pc = "done"
    /\ \E g \in Entrants : ScenariosWon(g) > ScenariosWon(overall_winner)

RECURSIVE Strip(_)
\* a scenario's logs with the logs that hold no pause event taken away
Strip(gc_data) ==
    IF gc_data = <<>> THEN <<>>
    ELSE IF Head(gc_data).value = <<>> THEN Strip(Tail(gc_data))
    ELSE <<Head(gc_data)>> \o Strip(Tail(gc_data))

NearestRank(ps, q, least) ==
    IF Len(ps) > least THEN FromInt(Sorted(ps)[(Len(ps) * q) \div 100 + 1])
    ELSE FromInt(MaxOf(ps))

\* C5: the p95 and p99 of every analysis path are the nearest-rank values
\* with fallback to the maximum (p95 above 20 values, p99 above 100).
C5_NearestRankEverywhere ==
    /\ (quick # None /\ quick # IndexError) =>
         /\ quick.p95 = NearestRank(pauses, 95, 20)
         /\ quick.p99 = NearestRank(pauses, 99, 100)
    /\ rich # None =>
         /\ rich.p95_ms = NearestRank(pauses, 95, 20)
         /\ rich.p99_ms = NearestRank(pauses, 99, 100)
    /\ grouped # None =>
         /\ grouped.p95_ms = NearestRank(pauses, 95, 20)
         /\ grouped.p99_ms = NearestRank(pauses, 99, 100)

\* C9: the Score of a summary is 3*p99 + 2*p95 + 2*max + mean + total/1000
\* of that summary's own p99, p95, max, mean and total.
C9_ScoreFormula ==
    rich # None =>
      rich.gc_score =
        RAdd(RAdd(RAdd(RAdd(RMulInt(rich.p99_ms, 3), RMulInt(rich.p95_ms, 2)),
                       RMulInt(rich.max_pause_ms, 2)),
                  rich.mean_ms),
             RDivInt(rich.total_pause_ms, 1000))

\* C9 witness: a summary whose p95, p99 and max differ and whose mean is not a
\* whole number.
C9_DistinctTermsWitness ==
    /\ rich # None
    /\ RLess(rich.p95_ms, rich.p99_ms)
    /\ RLess(rich.p99_ms, rich.max_pause_ms)
    /\ rich.mean_ms.den > 1

\* C10: for a non-empty sample p95 <= p99 <= max and mean*count = total in
\* every path, and the nearest-rank indices are positions of the sorted list.
C10_SummaryInvariants ==
    /\ quick # IndexError
    /\ quick # None =>
         /\ RLeq(quick.p95, quick.max)
         /\ RLeq(quick.p99, quick.max)
         /\ RLeq(quick.p95, quick.p99)
         /\ RMulInt(quick.mean, quick.count) = quick.total
    /\ rich # None =>
         /\ RLeq(rich.p95_ms, rich.max_pause_ms)
         /\ RLeq(rich.p99_ms, rich.max_pause_ms)
         /\ RLeq(rich.p95_ms, rich.p99_ms)
         /\ RMulInt(rich.mean_ms, rich.events) = rich.total_pause_ms
    /\ grouped # None =>
         /\ RLeq(grouped.p95_ms, grouped.max_pause_ms)
         /\ RLeq(grouped.p99_ms, grouped.max_pause_ms)
         /\ RLeq(grouped.p95_ms, grouped.p99_ms)
         /\ RMulInt(grouped.mean_ms, grouped.events) = grouped.total_pause_ms

\* C10 witness: a sample of more than 100 values, so that both nearest-rank
\* indices are used, whose p95 is below its p99 in both computations.
C10_LargeSampleWitness ==
    /\ quick # None
    /\ quick # IndexError
    /\ quick.count > 100
    /\ RLess(quick.p95, quick.p99)
    /\ rich # None
    /\ RLess(rich.p95_ms, rich.p99_ms)

(***************************************************************************)
(* Properties of the parser (checked under SpecParse).                     *)
(***************************************************************************)
\* the text of a number the patterns captured cannot be read as a number
Unresolvable(line) ==
    /\ "Pause" \in Range(line)
    /\ LET m_ms == pattern_pause_ms(line)
           m_s == pattern_pause_s(line)
           mp == pattern_prefix(line)
       IN \/ m_ms.matched /\ float(m_ms.group1) = ValueError
          \/ ~m_ms.matched /\ m_s.matched /\ float(m_s.group1) = ValueError
          \/ (m_ms.matched \/ m_s.matched)
               /\ mp.matched /\ float(mp.uptime) = ValueError

\* C6: parsing never ends in an error: a line with the marker whose number
\* cannot be resolved is dropped and the loop goes on.
C6_MalformedDropped ==
    /\ ppc # "raised"
    /\ (nread > 0 /\ Unresolvable(cur)) => outcome = Continue

\* the number of a form, when the form matches and its number resolves
FormNumber(m) ==
    IF m.matched /\ float(m.group1) # ValueError THEN float(m.group1)
    ELSE None

\* the result the parser owes a line
Expected(line) ==
    LET ms == FormNumber(pattern_pause_ms(line))
        sec == FormNumber(pattern_pause_s(line))
        mp == pattern_prefix(line)
        prefixed == mp.matched /\ float(mp.uptime) # ValueError
    IN IF "Pause" \notin Range(line) \/ (ms = None /\ sec = None)
       THEN Continue
       ELSE [kind |-> "row",
             row |-> [timestamp |-> IF prefixed THEN mp.ts ELSE None,
                      uptime_sec |-> IF prefixed THEN float(mp.uptime)
                                     ELSE None,
                      pause_ms |-> IF ms # None THEN ms
                                   ELSE RMulInt(sec, 1000)]]

\* C7: every line gives no event without the marker, else the number of the
\* millisecond form, else 1000 times the number of the second form, else no
\* event; a missing prefix leaves timestamp and uptime unset.
C7_LineResult == nread > 0 => outcome = Expected(cur)

\* C7 on the lines the loop body does not raise on
C7_LineResultUnlessRaised ==
    (nread > 0 /\ outcome # ValueError) => outcome = Expected(cur)

====
